---- MODULE Spec2Model ----
(***************************************************************************)
(* A model of store/redis.go: the Redis-backed GCRA store of throttled.    *)
(*                                                                         *)
(* The backend (its databases and its clock) is the variables store and    *)
(* clock; each command a handler issues is one atomic step of the backend, so *)
(* callers interleave between the commands of one handler, exactly where   *)
(* other clients of a real server can.  The replies of the client library  *)
(* (redigo) are modelled at the call sites that consume them.              *)
(*                                                                         *)
(* Instants and durations are counted in microseconds, the resolution of   *)
(* the TIME reply: every nanosecond quantity the code computes is a        *)
(* multiple of 1000, so nothing is lost.                                   *)
(***************************************************************************)
EXTENDS Integers, FiniteSets, Sequences, TLC

VARIABLES
    store,        \* the backend's entries: database -> key -> [present, val, exp]
    clock,        \* the backend's clock, in microseconds since the epoch
    backendEval,  \* whether the backend knows the EVAL command
    db,           \* redisStore.db, the handle's database index
    supportsEval, \* redisStore.supportsEval, the handle's capability flag
    call,         \* per caller: the handler it is in, its locals and its result
    pool          \* redisStore.pool: the database its idle session is selected on

vars == <<store, clock, backendEval, db, supportsEval, call, pool>>

(***************************************************************************)
(* Bounds.                                                                 *)
(***************************************************************************)
MaxVal == 1
MaxSec == 2
MaxDb == 1

Procs == {"p1", "p2"}
Keys == {"k"}
Vals == 0..MaxVal
Dbs == 0..MaxDb

(***************************************************************************)
(* time.Second and time.Millisecond (in microseconds).                     *)
(***************************************************************************)
Second == 1000000
Millisecond == 1000

\* the sub-second field of the TIME reply, in microseconds
USecs == {0, 999999}
Instants == {s * Second + u : s \in 0..MaxSec, u \in USecs}
\* durations passed as ttl: none, below one second, one and a half seconds
TTLs == {0, 500 * Millisecond, 1500 * Millisecond}

NoExp == -1
ZeroTime == -1

Nil == "nil"
ErrNil == "redigo: nil returned"
redisCASMissingKey == "key does not exist"
ErrUnknownCommand == "ERR unknown command 'EVAL'"
ErrScript == "ERR Error running script"
ErrSelect == "ERR invalid DB index"
ErrIO == "io: connection error"
ErrExpireTime == "ERR invalid expire time in setex"
ErrParse == "strconv.ParseInt: invalid syntax"

\* the scripted path was not tried
NotRun == "not run"

AbsentEntry == [present |-> FALSE, val |-> 0, exp |-> NoExp]

\* a stored value that is not an integer: redis.Int64 cannot convert it
NotInt == -2

\* what a caller remembers of the key when it enters a handler: -1 if absent
Seen(e) == IF e.present THEN e.val ELSE -1

\* int(ttl.Seconds()): the duration truncated to whole seconds
Seconds(ttl) == ttl \div Second

\* the backend's expiry: an entry whose expiration is reached is absent
Live(e, now) == IF e.present /\ e.exp # NoExp /\ now >= e.exp THEN AbsentEntry ELSE e

\* the replies of the backend's write commands
DoSet(e, v) == [present |-> TRUE, val |-> v, exp |-> NoExp]
DoSetEx(e, secs, v, now) == [present |-> TRUE, val |-> v, exp |-> now + secs * Second]
\* (mutant) SET in the place of SETNX: the write is unconditional
DoSetNXAlways(e, v) == [reply |-> 1, entry |-> [present |-> TRUE, val |-> v, exp |-> NoExp]]
DoSetNX(e, v) == IF e.present THEN [reply |-> 0, entry |-> e]
                 ELSE [reply |-> 1, entry |-> [present |-> TRUE, val |-> v, exp |-> NoExp]]
DoExpire(e, secs, now) == IF e.present THEN [e EXCEPT !.exp = now + secs * Second] ELSE e

Idle ==
    [op |-> "none", pc |-> "idle", key |-> "k", old |-> 0, new |-> 0, ttl |-> 0,
     v |-> 0, dirty |-> FALSE, dead |-> FALSE, now |-> ZeroTime,
     ok |-> FALSE, val |-> 0, err |-> Nil,
     pre |-> -1, expired |-> FALSE, fault |-> FALSE,
     late |-> FALSE, evalErr |-> NotRun, watchRuns |-> 0, execs |-> 0,
     wok |-> FALSE, werr |-> Nil, at |-> ZeroTime, rerr |-> NotRun,
     sel |-> 0, acq |-> 0, rel |-> 0]

\* the callers' records after caller p changed key k of the database its
\* session is selected on: a WATCH that another caller holds on it is invalidated
Touched(p, k) ==
    [q \in Procs |->
        IF /\ q # p /\ call[q].pc \in {"get", "exec"}
           /\ call[q].key = k /\ call[q].sel = call[p].sel
        THEN [call[q] EXCEPT !.dirty = TRUE]
        ELSE call[q]]

Init ==
    /\ store = [d \in Dbs |-> [k \in Keys |-> AbsentEntry]]
    /\ clock = 0
    /\ backendEval \in BOOLEAN
    /\ db \in Dbs
    /\ supportsEval = TRUE
    /\ call = [p \in Procs |-> Idle]
    /\ pool = 0

(***************************************************************************)
(* Helpers of the handlers.                                                *)
(***************************************************************************)

\* the entry of key k in database d as the backend serves it now
EntryOn(d, k) == Live(store[d][k], clock)

\* the entry of key k in the database the handle is configured with
Entry(k) == EntryOn(db, k)

\* (mutant) the script writes before it compares
redisCASScriptWriteFirst(e, old, new, ttlArg, now) ==
    IF ~e.present THEN [err |-> redisCASMissingKey, n |-> 0, entry |-> e]
    ELSE IF e.val # old THEN [err |-> Nil, n |-> 0, entry |-> DoSet(e, new)]
    ELSE IF ttlArg # 0 THEN [err |-> Nil, n |-> 1, entry |-> DoSetEx(e, ttlArg, new, now)]
    ELSE [err |-> Nil, n |-> 1, entry |-> DoSet(e, new)]

\* redisCASScript with KEYS[1] -> e, ARGV = <<old, new, ttlArg>>: its reply
\* (an error reply, 0 or 1) and the entry it leaves
redisCASScript(e, old, new, ttlArg, now) ==
    IF ~e.present THEN [err |-> redisCASMissingKey, n |-> 0, entry |-> e]
    ELSE IF e.val # old THEN [err |-> Nil, n |-> 0, entry |-> e]
    ELSE IF ttlArg # 0 THEN [err |-> Nil, n |-> 1, entry |-> DoSetEx(e, ttlArg, new, now)]
    ELSE [err |-> Nil, n |-> 1, entry |-> DoSet(e, new)]

\* strings.Contains(err.Error(), redisCASMissingKey)
IsMissingKey(err) == err = redisCASMissingKey

\* (mutant) every error of the scripted path falls back
IsAnyError(err) == err # Nil

\* strings.Contains(err.Error(), "unknown command")
IsUnknownCommand(err) == err = ErrUnknownCommand

\* compareAndSwapWithEval, given the reply of conn.Do("EVAL", ...)
compareAndSwapWithEval(reply) ==
    IF reply.err # Nil
    THEN IF IsMissingKey(reply.err) THEN [swapped |-> FALSE, err |-> Nil]
         ELSE [swapped |-> FALSE, err |-> reply.err]
    ELSE [swapped |-> reply.n = 1, err |-> Nil]

\* the command compareAndSwapWithWatch queues between MULTI and EXEC, as the
\* backend runs it at EXEC: the entry it leaves and its own reply, an element of
\* EXEC's reply. SETEX refuses an expire time of 0 and writes nothing.
WatchWrite(e, new, ttl, now) ==
    IF ttl > 0
    THEN IF Seconds(ttl) > 0
         THEN [entry |-> DoSetEx(e, Seconds(ttl), new, now), err |-> Nil]
         ELSE [entry |-> e, err |-> ErrExpireTime]
    ELSE [entry |-> DoSet(e, new), err |-> Nil]

\* conn.Do("EXEC"): an aborted transaction is a nil reply with a nil error
\* (redis.ErrNil comes from the reply helpers only), and the errors of queued
\* commands are elements of the reply, not the call's error
DoExec(aborted) == [reply |-> IF aborted THEN "nil" ELSE "array", err |-> Nil]

\* the end of compareAndSwapWithWatch, given conn.Do("EXEC")'s error
ExecResult(err) ==
    IF err = ErrNil THEN [swapped |-> FALSE, err |-> Nil]
    ELSE IF err # Nil THEN [swapped |-> FALSE, err |-> err]
    ELSE [swapped |-> TRUE, err |-> Nil]

\* redis.Int64 on the reply of GET for entry e: the value and the error
Int64(e) ==
    IF ~e.present THEN [v |-> 0, err |-> ErrNil]
    ELSE IF e.val = NotInt THEN [v |-> 0, err |-> ErrParse]
    ELSE [v |-> e.val, err |-> Nil]

\* updated := v == 1
Updated(v) == v = 1

\* (mutant) every positive ttl sends EXPIRE
WantsExpireAny(ttl) == ttl > 0

\* ttl >= time.Second
WantsExpire(ttl) == ttl >= Second

\* time.Unix(s, ms*int64(time.Millisecond))
UnixTime(s, ms) == s * Second + ms * Millisecond

\* the value GetWithTime returns for a nil reply
AbsentValue == -1

\* a handler returning after getConn gave it a session: its results are in
\* ok / val / now / err, and the deferred conn.Close() releases the session
Done(c, ok, err) == [c EXCEPT !.pc = "done", !.ok = ok, !.err = err, !.rel = @ + 1]

\* (mutant) getConn returns the error of SELECT without closing the session
FailedLeak(c, err) == [c EXCEPT !.pc = "done", !.ok = FALSE, !.err = err]

\* a handler returning the error of getConn, which has closed the session
Failed(c, err) == [c EXCEPT !.pc = "done", !.ok = FALSE, !.err = err, !.rel = @ + 1]

\* conn.Close() as caller p's handler returns: the session goes back to the
\* pool, selected on the database it was last selected on
Close(p) == pool' = IF call'[p].pc = "done" THEN call[p].sel ELSE pool

\* lines 142-147: CompareAndSwap returning what compareAndSwapWithWatch returned
AfterWatch(c, r) ==
    LET w == [c EXCEPT !.wok = r.swapped, !.werr = r.err]
    IN IF r.err # Nil THEN Done(w, FALSE, r.err) ELSE Done(w, r.swapped, Nil)

(***************************************************************************)
(* The callers enter a handler.                                            *)
(***************************************************************************)
Enter(p, op, k, old, new, ttl) ==
    /\ call[p].pc = "idle"
    /\ call' = [call EXCEPT ![p] =
                  [Idle EXCEPT !.op = op, !.pc = "conn", !.key = k, !.old = old,
                               !.new = new, !.ttl = ttl, !.pre = Seen(Entry(k)),
                               !.late = ~supportsEval]]
    /\ UNCHANGED <<store, clock, backendEval, db, supportsEval, pool>>

CallCompareAndSwap(p) ==
    \E k \in Keys, old \in Vals, new \in Vals, ttl \in TTLs :
        Enter(p, "cas", k, old, new, ttl)

CallSetIfNotExists(p) ==
    \E k \in Keys, value \in Vals, ttl \in TTLs : Enter(p, "setnx", k, 0, value, ttl)

CallGetWithTime(p) == \E k \in Keys : Enter(p, "get", k, 0, 0, 0)

\* the caller takes the result and leaves the handler
Return(p) ==
    /\ call[p].pc = "done"
    /\ call' = [call EXCEPT ![p] = Idle]
    /\ UNCHANGED <<store, clock, backendEval, db, supportsEval, pool>>

(***************************************************************************)
(* getConn.                                                                *)
(***************************************************************************)
\* (mutant) CompareAndSwap probes the scripted path on every call
FirstStepReprobe(op) ==
    CASE op = "cas" -> "eval"
      [] op = "setnx" -> "setnx"
      [] op = "get" -> "time"

\* where a handler goes once it holds its connection; CompareAndSwap reads
\* r.supportsEval here. The field is read and written (AfterEval) with no
\* synchronisation: each access is one step, so a read that races with the
\* write returns the value before it or the value after it.
FirstStep(op) ==
    CASE op = "cas" -> IF supportsEval THEN "eval" ELSE "watch"
      [] op = "setnx" -> "setnx"
      [] op = "get" -> "time"

\* pool.Get() hands out the idle session, selected on the database its last
\* user left it on, or a new one, selected on database 0; SELECT is sent only
\* if r.db > 0
getConn(p) ==
    /\ call[p].pc = "conn"
    /\ \E s \in {pool, 0} :
         call' = [call EXCEPT ![p].pc = FirstStep(call[p].op),
                              ![p].acq = @ + 1,
                              ![p].sel = IF db > 0 THEN db ELSE s]
    /\ UNCHANGED <<store, clock, backendEval, db, supportsEval, pool>>

\* SELECT fails: getConn closes the session and the handler returns the error
\* with zero results
getConnFail(p) ==
    /\ call[p].pc = "conn"
    /\ db > 0
    /\ \E s \in {pool, 0} :
         /\ call' = [call EXCEPT ![p] =
                       Failed([@ EXCEPT !.acq = @ + 1, !.sel = s, !.fault = TRUE],
                              ErrSelect)]
         /\ pool' = s
    /\ UNCHANGED <<store, clock, backendEval, db, supportsEval>>

(***************************************************************************)
(* CompareAndSwap.                                                         *)
(***************************************************************************)
\* (mutant) every error of the scripted path clears the capability flag
AfterEvalLatchAll(p, c, r) ==
    IF r.err = Nil
    THEN /\ call' = [c EXCEPT ![p] = Done(@, r.swapped, Nil)]
         /\ UNCHANGED supportsEval
    ELSE /\ supportsEval' = FALSE
         /\ call' = [c EXCEPT ![p] =
                       IF IsUnknownCommand(r.err) THEN [@ EXCEPT !.pc = "watch"]
                       ELSE Done(@, FALSE, r.err)]

\* (mutant) only the call that finds the flag still set falls back; one that
\* finds it cleared by another call returns the error
AfterEvalOnce(p, c, r) ==
    IF r.err = Nil
    THEN /\ call' = [c EXCEPT ![p] = Done(@, r.swapped, Nil)]
         /\ UNCHANGED supportsEval
    ELSE IF IsUnknownCommand(r.err) /\ supportsEval
    THEN /\ supportsEval' = FALSE
         /\ call' = [c EXCEPT ![p].pc = "watch"]
    ELSE /\ call' = [c EXCEPT ![p] = Done(@, FALSE, r.err)]
         /\ UNCHANGED supportsEval

\* lines 128-140, given what compareAndSwapWithEval returned; c is the callers'
\* records after the EVAL command
AfterEval(p, c, r) ==
    IF r.err = Nil
    THEN /\ call' = [c EXCEPT ![p] = Done(@, r.swapped, Nil)]
         /\ UNCHANGED supportsEval
    ELSE IF IsUnknownCommand(r.err)
    THEN /\ supportsEval' = FALSE
         /\ call' = [c EXCEPT ![p].pc = "watch"]
    ELSE /\ call' = [c EXCEPT ![p] = Done(@, FALSE, r.err)]
         /\ UNCHANGED supportsEval

\* the backend runs the script
Eval(p) ==
    /\ call[p].pc = "eval"
    /\ backendEval
    /\ LET c == call[p]
           reply == redisCASScript(EntryOn(c.sel, c.key), c.old, c.new,
                                   Seconds(c.ttl), clock)
           cs == IF reply.n = 1 THEN Touched(p, c.key) ELSE call
       IN /\ store' = [store EXCEPT ![c.sel][c.key] = reply.entry]
          /\ AfterEval(p, [cs EXCEPT ![p].evalErr = reply.err], compareAndSwapWithEval(reply))
    /\ UNCHANGED <<clock, backendEval, db>>
    /\ Close(p)

\* the backend does not know EVAL
EvalUnknown(p) ==
    /\ call[p].pc = "eval"
    /\ ~backendEval
    /\ AfterEval(p, [call EXCEPT ![p].evalErr = ErrUnknownCommand],
                 compareAndSwapWithEval([err |-> ErrUnknownCommand, n |-> 0]))
    /\ UNCHANGED <<store, clock, backendEval, db>>
    /\ Close(p)

\* the EVAL command fails otherwise (the connection, the script)
EvalFail(p) ==
    /\ call[p].pc = "eval"
    /\ \E e \in {ErrIO, ErrScript} :
         AfterEval(p, [call EXCEPT ![p].evalErr = e, ![p].fault = TRUE],
                   compareAndSwapWithEval([err |-> e, n |-> 0]))
    /\ UNCHANGED <<store, clock, backendEval, db>>
    /\ Close(p)

\* compareAndSwapWithWatch: WATCH
Watch(p) ==
    /\ call[p].pc = "watch"
    /\ call' = [call EXCEPT ![p].pc = "get", ![p].dirty = FALSE,
                            ![p].watchRuns = @ + 1]
    /\ UNCHANGED <<store, clock, backendEval, db, supportsEval>>
    /\ Close(p)

\* (mutant) the nil reply is not told from the value 0
AfterWatchGetNoNil(c, v, err) ==
    IF v # c.old THEN AfterWatch(c, [swapped |-> FALSE, err |-> Nil])
    ELSE [c EXCEPT !.pc = "exec", !.v = v]

\* lines 156-162, given what redis.Int64(conn.Receive()) returned
AfterWatchGet(c, v, err) ==
    IF err = ErrNil THEN AfterWatch(c, [swapped |-> FALSE, err |-> Nil])
    ELSE IF v # c.old THEN AfterWatch(c, [swapped |-> FALSE, err |-> Nil])
    ELSE [c EXCEPT !.pc = "exec", !.v = v]

\* compareAndSwapWithWatch: GET
WatchGet(p) ==
    /\ call[p].pc = "get"
    /\ LET r == Int64(EntryOn(call[p].sel, call[p].key))
       IN call' = [call EXCEPT ![p] =
                     AfterWatchGet([@ EXCEPT !.rerr = r.err,
                                             !.fault = @ \/ r.err = ErrParse],
                                   r.v, r.err)]
    /\ UNCHANGED <<store, clock, backendEval, db, supportsEval>>
    /\ Close(p)

\* the read fails: redis.Int64 returns 0 and an error that is not ErrNil, and
\* the connection is unusable from then on
WatchGetFail(p) ==
    /\ call[p].pc = "get"
    /\ call' = [call EXCEPT ![p] =
                  AfterWatchGet([@ EXCEPT !.fault = TRUE, !.dead = TRUE, !.rerr = ErrIO],
                                0, ErrIO)]
    /\ UNCHANGED <<store, clock, backendEval, db, supportsEval>>
    /\ Close(p)

\* compareAndSwapWithWatch: MULTI, the queued write, EXEC
Exec(p) ==
    /\ call[p].pc = "exec"
    /\ ~call[p].dead
    /\ LET c == call[p]
           e == EntryOn(c.sel, c.key)
           w == WatchWrite(e, c.new, c.ttl, clock)
           wrote == ~c.dirty /\ w.err = Nil
           cs == IF wrote THEN Touched(p, c.key) ELSE call
           r == ExecResult(DoExec(c.dirty).err)
       IN /\ store' = [store EXCEPT ![c.sel][c.key] = IF wrote THEN w.entry ELSE e]
          /\ call' = [cs EXCEPT ![p] = AfterWatch([@ EXCEPT !.execs = @ + 1], r)]
    /\ UNCHANGED <<clock, backendEval, db, supportsEval>>
    /\ Close(p)

\* EXEC fails on the connection
ExecFail(p) ==
    /\ call[p].pc = "exec"
    /\ call' = [call EXCEPT ![p] =
                  AfterWatch([@ EXCEPT !.fault = TRUE, !.execs = @ + 1], ExecResult(ErrIO))]
    /\ UNCHANGED <<store, clock, backendEval, db, supportsEval>>
    /\ Close(p)

(***************************************************************************)
(* SetIfNotExists.                                                         *)
(***************************************************************************)
SetNX(p) ==
    /\ call[p].pc = "setnx"
    /\ LET c == call[p]
           r == DoSetNX(EntryOn(c.sel, c.key), c.new)
           cs == IF r.reply = 1 THEN Touched(p, c.key) ELSE call
       IN /\ store' = [store EXCEPT ![c.sel][c.key] = r.entry]
          /\ call' = [cs EXCEPT ![p] =
                        IF WantsExpire(c.ttl)
                        THEN [@ EXCEPT !.pc = "expire", !.ok = Updated(r.reply)]
                        ELSE Done(@, Updated(r.reply), Nil)]
    /\ UNCHANGED <<clock, backendEval, db, supportsEval>>
    /\ Close(p)

SetNXFail(p) ==
    /\ call[p].pc = "setnx"
    /\ call' = [call EXCEPT ![p] = [Done(@, FALSE, ErrIO) EXCEPT !.fault = TRUE]]
    /\ UNCHANGED <<store, clock, backendEval, db, supportsEval>>
    /\ Close(p)

Expire(p) ==
    /\ call[p].pc = "expire"
    /\ LET c == call[p]
           e == EntryOn(c.sel, c.key)
           cs == IF e.present THEN Touched(p, c.key) ELSE call
       IN /\ store' = [store EXCEPT ![c.sel][c.key] = DoExpire(e, Seconds(c.ttl), clock)]
          /\ call' = [cs EXCEPT ![p] = Done(@, c.ok, Nil)]
    /\ UNCHANGED <<clock, backendEval, db, supportsEval>>
    /\ Close(p)

ExpireFail(p) ==
    /\ call[p].pc = "expire"
    /\ call' = [call EXCEPT ![p] = [Done(@, call[p].ok, ErrIO) EXCEPT !.fault = TRUE]]
    /\ UNCHANGED <<store, clock, backendEval, db, supportsEval>>
    /\ Close(p)

(***************************************************************************)
(* GetWithTime.                                                            *)
(***************************************************************************)
\* the backend answers TIME: seconds and microseconds
Time(p) ==
    /\ call[p].pc = "time"
    /\ call' = [call EXCEPT ![p].pc = "value", ![p].at = clock,
                            ![p].now = UnixTime(clock \div Second, clock % Second)]
    /\ UNCHANGED <<store, clock, backendEval, db, supportsEval>>
    /\ Close(p)

\* the time reply fails (redis.Values) or does not scan (redis.Scan): now is
\* still the zero time
TimeFail(p) ==
    /\ call[p].pc = "time"
    /\ call' = [call EXCEPT ![p] =
                  [Done(@, FALSE, ErrIO) EXCEPT !.val = 0, !.fault = TRUE]]
    /\ UNCHANGED <<store, clock, backendEval, db, supportsEval>>
    /\ Close(p)

\* (mutant) the nil reply is returned as the error of redis.Int64
ValueReplyNoNil(c, e) ==
    LET r == Int64(e)
    IN IF r.err # Nil THEN [Done(c, FALSE, r.err) EXCEPT !.val = 0, !.fault = r.err = ErrParse]
       ELSE [Done(c, FALSE, Nil) EXCEPT !.val = r.v]

\* lines 78-85, given the entry GET found
ValueReply(c, e) ==
    LET r == Int64(e)
    IN IF r.err = ErrNil THEN [Done(c, FALSE, Nil) EXCEPT !.val = AbsentValue]
       ELSE IF r.err # Nil THEN [Done(c, FALSE, r.err) EXCEPT !.val = 0, !.fault = TRUE]
       ELSE [Done(c, FALSE, Nil) EXCEPT !.val = r.v]

\* the backend answers GET
Value(p) ==
    /\ call[p].pc = "value"
    /\ call' = [call EXCEPT ![p] = ValueReply(@, EntryOn(call[p].sel, call[p].key))]
    /\ UNCHANGED <<store, clock, backendEval, db, supportsEval>>
    /\ Close(p)

\* the value reply fails: line 82 returns 0, now and the error
ValueFail(p) ==
    /\ call[p].pc = "value"
    /\ call' = [call EXCEPT ![p] =
                  [Done(@, FALSE, ErrIO) EXCEPT !.val = 0, !.fault = TRUE]]
    /\ UNCHANGED <<store, clock, backendEval, db, supportsEval>>
    /\ Close(p)

(***************************************************************************)
(* The backend's clock advances; entries whose expiration is reached go.   *)
(* An expiry does not invalidate a WATCH (backends older than 6.0.9, which *)
(* those without EVAL are).                                                *)
(***************************************************************************)
Tick ==
    /\ \E t \in Instants : t > clock
    /\ LET next == CHOOSE t \in Instants :
                      t > clock /\ \A u \in Instants : u > clock => t <= u
           gone == {k \in Keys : store[db][k].present /\ ~Live(store[db][k], next).present}
       IN /\ clock' = next
          /\ store' = [d \in Dbs |-> [k \in Keys |-> Live(store[d][k], next)]]
          /\ call' = [p \in Procs |->
                        IF call[p].pc # "idle" /\ call[p].key \in gone
                        THEN [call[p] EXCEPT !.expired = TRUE]
                        ELSE call[p]]
    /\ UNCHANGED <<backendEval, db, supportsEval, pool>>

\* another client of the backend, not this store, leaves a value that is not
\* an integer under a key while no handler is running
OtherClient ==
    /\ \A p \in Procs : call[p].pc = "idle"
    /\ \E k \in Keys : store' = [store EXCEPT ![db][k] = DoSet(Entry(k), NotInt)]
    /\ UNCHANGED <<clock, backendEval, db, supportsEval, call, pool>>

\* the steps of the handlers, every command answered
Common(p) == getConn(p) \/ Return(p)

Swap(p) ==
    \/ CallCompareAndSwap(p)
    \/ Eval(p)
    \/ EvalUnknown(p)
    \/ Watch(p)
    \/ WatchGet(p)
    \/ Exec(p)

Create(p) ==
    \/ CallSetIfNotExists(p)
    \/ SetNX(p)
    \/ Expire(p)

Read(p) ==
    \/ CallGetWithTime(p)
    \/ Time(p)
    \/ Value(p)

\* a command fails
Fault(p) ==
    \/ getConnFail(p)
    \/ EvalFail(p)
    \/ WatchGetFail(p)
    \/ ExecFail(p)
    \/ SetNXFail(p)
    \/ ExpireFail(p)
    \/ TimeFail(p)
    \/ ValueFail(p)

(***************************************************************************)
(* Spec: one caller runs the three handlers one after the other; every     *)
(* command may fail; the clock runs; between two calls another client may  *)
(* leave a value that is not an integer.                                   *)
(***************************************************************************)
Solo == {"p1"}

Next ==
    \/ \E p \in Solo : Common(p) \/ Swap(p) \/ Create(p) \/ Read(p) \/ Fault(p)
    \/ Tick
    \/ OtherClient

Spec == Init /\ [][Next]_vars

(***************************************************************************)
(* SpecSwap: the callers share the handle and run CompareAndSwap           *)
(* concurrently on a key that holds any value, or none, on the default     *)
(* database; the commands are answered and the clock stands.               *)
(***************************************************************************)
InitSwap ==
    /\ store \in [Dbs -> [Keys -> {AbsentEntry} \cup {DoSet(AbsentEntry, v) : v \in Vals}]]
    /\ \A d \in Dbs \ {0} : store[d] = [k \in Keys |-> AbsentEntry]
    /\ clock = 0
    /\ backendEval \in BOOLEAN
    /\ db = 0
    /\ supportsEval = TRUE
    /\ call = [p \in Procs |-> Idle]
    /\ pool = 0

NextSwap == \E p \in Procs : Common(p) \/ Swap(p)

SpecSwap == InitSwap /\ [][NextSwap]_vars

(***************************************************************************)
(* SpecCreate: the callers run SetIfNotExists concurrently on the default  *)
(* database; the commands are answered and the clock runs.                 *)
(***************************************************************************)
InitCreate == Init /\ db = 0

NextCreate ==
    \/ \E p \in Procs : Common(p) \/ Create(p)
    \/ Tick

SpecCreate == InitCreate /\ [][NextCreate]_vars

(***************************************************************************)
(* SpecPool: Spec, and the pool is shared: between two calls a handle      *)
(* configured with another database may use the idle session and release   *)
(* it selected on its own database.                                        *)
(***************************************************************************)
OtherHandle ==
    /\ \A p \in Procs : call[p].pc = "idle"
    /\ \E d \in Dbs : d > 0 /\ d # db /\ pool' = d
    /\ UNCHANGED <<store, clock, backendEval, db, supportsEval, call>>

NextPool == Next \/ OtherHandle

SpecPool == Init /\ [][NextPool]_vars

(***************************************************************************)
(* The claims.                                                             *)
(***************************************************************************)

\* caller p is inside GetWithTime, between its entry and its return
InGet(p) == call[p].op = "get" /\ call[p].pc \in {"conn", "time", "value"}

\* C1: a CompareAndSwap that runs alone, with no failing command (and no expiry
\* of the key meanwhile), returns swapped=true exactly if the key held old when
\* it was called, and after swapped=true the key reads back as new.
C1_Contract ==
    \A p \in Procs :
        LET c == call[p] IN
        (c.op = "cas" /\ c.pc = "done" /\ ~c.fault /\ ~c.expired) =>
            /\ c.ok <=> c.pre = c.old
            /\ c.ok => Entry(c.key).present /\ Entry(c.key).val = c.new

\* C3: CompareAndSwap on a key that is absent when it is called does not create
\* the key, never returns swapped=true, and with no failing command returns
\* (false, nil), whatever old, new and ttl are and whichever path runs.
C3_AbsentKey ==
    \A p \in Procs :
        LET c == call[p] IN
        (c.op = "cas" /\ c.pre = -1) =>
            /\ ~Entry(c.key).present
            /\ c.pc = "done" => ~c.ok
            /\ (c.pc = "done" /\ ~c.fault) => c.err = Nil

\* C3's case: the optimistic-lock path has answered for an absent key with old = 0
C3_Witness ==
    \E p \in Procs :
        LET c == call[p] IN
        /\ c.op = "cas" /\ c.pc = "done" /\ c.pre = -1 /\ c.old = 0
        /\ c.watchRuns = 1 /\ ~c.fault /\ ~c.ok /\ c.err = Nil

\* C7: the time GetWithTime returns is the instant of the backend's TIME reply.
C7_SameInstant ==
    \A p \in Procs :
        LET c == call[p] IN
        (c.op = "get" /\ c.at # ZeroTime) => c.now = c.at

C9_NoPartialResult ==
    \A p \in Procs :
        LET c == call[p] IN
        (c.op = "get" /\ c.pc = "done" /\ c.err # Nil) => c.val = 0 /\ c.now = ZeroTime

\* caller p's handler returns in this step
Returns(p) == call[p].pc # "done" /\ call'[p].pc = "done"

\* C2: a CompareAndSwap that returns swapped=true took effect as one step of
\* the backend in which the key held old and came to hold new (a ttl below one
\* second, which the two paths treat differently, is left to C13).
C2_Atomic ==
    [][\A p \in Procs :
         LET c == call'[p] IN
         (Returns(p) /\ c.op = "cas" /\ c.ok /\ (c.ttl = 0 \/ WantsExpire(c.ttl))) =>
             /\ Entry(c.key).present
             /\ Entry(c.key).val = c.old
             /\ store'[db][c.key].present
             /\ store'[db][c.key].val = c.new]_vars

\* C4: of two SetIfNotExists calls that both found the key absent when they
\* were called, exactly one returns created=true, and (unless the entry has
\* expired since) the key holds the value that call passed.
C4_OneCreator ==
    \A p, q \in Procs :
        LET c == call[p]
            d == call[q] IN
        (/\ p # q
         /\ c.op = "setnx" /\ c.pc = "done" /\ c.pre = -1 /\ ~c.expired
         /\ d.op = "setnx" /\ d.pc = "done" /\ d.pre = -1 /\ ~d.expired) =>
            /\ c.ok # d.ok
            /\ Entry(c.key).present
            /\ c.ok => Entry(c.key).val = c.new

\* C4's case: two calls with different values and a ttl raced, one created
C4_Witness ==
    \E p, q \in Procs :
        LET c == call[p]
            d == call[q] IN
        /\ p # q
        /\ c.op = "setnx" /\ c.pc = "done" /\ c.pre = -1 /\ ~c.expired
        /\ d.op = "setnx" /\ d.pc = "done" /\ d.pre = -1 /\ ~d.expired
        /\ c.new # d.new /\ WantsExpire(c.ttl) /\ WantsExpire(d.ttl)
        /\ c.ok /\ ~d.ok

\* C5: a CompareAndSwap that is called after the capability flag was
\* downgraded never issues the script command: it runs the optimistic-lock
\* path only.
C5_NoReprobe ==
    \A p \in Procs :
        LET c == call[p] IN
        (c.op = "cas" /\ c.late) =>
            /\ c.pc # "eval"
            /\ c.evalErr = NotRun
            /\ c.pc = "done" => c.watchRuns = 1

\* C5's case: while one caller was still in the call that downgraded the flag,
\* another was called, and it has answered from the optimistic-lock path
C5_Witness ==
    \E p, q \in Procs :
        /\ p # q
        /\ call[p].op = "cas" /\ call[p].evalErr = ErrUnknownCommand
        /\ call[p].pc \in {"watch", "get", "exec"}
        /\ call[q].op = "cas" /\ call[q].late /\ call[q].pc = "done" /\ call[q].ok

\* C6: a CompareAndSwap whose EVAL failed with the unknown-command error runs
\* the optimistic-lock path once and returns its result, not that error; one
\* whose EVAL failed otherwise returns (false, that error), does not run the
\* optimistic-lock path and leaves the capability flag as it was.
C6_Fallback ==
    /\ [](\A p \in Procs :
            LET c == call[p] IN
            (c.op = "cas" /\ c.pc = "done") =>
                /\ c.evalErr = ErrUnknownCommand =>
                      /\ c.watchRuns = 1
                      /\ c.err # ErrUnknownCommand
                      /\ c.err = c.werr
                      /\ c.ok = (c.wok /\ c.werr = Nil)
                /\ c.evalErr \in {ErrIO, ErrScript} =>
                      /\ ~c.ok
                      /\ c.err = c.evalErr
                      /\ c.watchRuns = 0)
    /\ [][\A p \in Procs :
            (call[p].pc = "eval" /\ call'[p].evalErr \in {ErrIO, ErrScript}) =>
                /\ supportsEval' = supportsEval
                /\ call'[p].pc = "done"]_vars

\* C6's case: the fallback of one call has swapped
C6_Witness ==
    \E p \in Procs :
        LET c == call[p] IN
        /\ c.op = "cas" /\ c.pc = "done" /\ c.evalErr = ErrUnknownCommand
        /\ c.watchRuns = 1 /\ c.ok /\ c.err = Nil

\* C10: when a SetIfNotExists with ttl of at least one second returns without
\* error, or a CompareAndSwap with such a ttl returns swapped=true, the key
\* carries an expiration at most ttl, truncated to whole seconds, ahead of the
\* backend's clock (or is absent already): left alone, it becomes absent.
C10_Expires ==
    [][\A p \in Procs :
         LET c == call'[p]
             e == Live(store'[db][c.key], clock') IN
         (/\ Returns(p)
          /\ WantsExpire(c.ttl)
          /\ \/ c.op = "setnx" /\ c.err = Nil
             \/ c.op = "cas" /\ c.ok) =>
             \/ ~e.present
             \/ e.exp # NoExp /\ e.exp <= clock' + Seconds(c.ttl) * Second]_vars

\* C11: a CompareAndSwap that ran the optimistic-lock path and met an error at
\* one of its steps (a read that failed or found a value that is not an
\* integer, a commit that failed) returns a non-nil error, and not swapped=true.
C11_ErrorReported ==
    \A p \in Procs :
        LET c == call[p] IN
        (c.op = "cas" /\ c.pc = "done" /\ c.watchRuns = 1 /\ c.fault) =>
            c.err # Nil /\ ~c.ok

\* C20: the optimistic-lock path writes the key only after its read succeeded
\* and returned old: the commit of a call whose read failed changes nothing.
C20_WriteAfterGoodRead ==
    [][\A p \in Procs :
         (/\ call[p].op = "cas" /\ call[p].pc = "exec"
          /\ clock' = clock
          /\ store'[db][call[p].key] # store[db][call[p].key]) =>
             call[p].rerr = Nil /\ call[p].v = call[p].old]_vars

\* C12: when the watched key was written by another caller after this call
\* read old from it (it no longer holds old at the commit), the commit is
\* aborted: the call's one EXEC changes nothing and the call returns
\* (false, nil).
C12_AbortDeclines ==
    [][\A p \in Procs :
         LET c == call[p] IN
         (/\ c.op = "cas" /\ c.pc = "exec" /\ c.dirty
          /\ Seen(Entry(c.key)) # c.old
          /\ call'[p].pc = "done") =>
             /\ store' = store
             /\ call'[p].execs = 1
             /\ ~call'[p].ok
             /\ call'[p].err = Nil]_vars

\* C13: when the optimistic-lock path returns, with every command answered and
\* no expiry meanwhile, it returns what the script would have returned for the
\* entry it found, and leaves the entry the script would have left.
C13_SamePaths ==
    [][\A p \in Procs :
         LET c == call[p]
             d == call'[p]
             reply == redisCASScript(Entry(c.key), c.old, c.new, Seconds(c.ttl), clock)
             r == compareAndSwapWithEval(reply) IN
         (/\ c.op = "cas" /\ c.pc \in {"get", "exec"}
          /\ d.pc = "done" /\ ~d.fault /\ ~d.expired) =>
             /\ d.ok = r.swapped
             /\ d.err = r.err
             /\ store'[db][c.key] = reply.entry]_vars

\* C14: the capability flag is set when the handle is created; it changes only
\* from set to cleared, and only in the step of a CompareAndSwap whose EVAL
\* was answered with the unknown-command error: every other step of every
\* handler leaves it as it is.
C14_FlagOneWay ==
    /\ supportsEval = TRUE
    /\ [][/\ ~supportsEval => ~supportsEval'
          /\ supportsEval' # supportsEval =>
                \E p \in Procs :
                    /\ call[p].op = "cas" /\ call[p].pc = "eval"
                    /\ call'[p].evalErr = ErrUnknownCommand
          /\ \A p \in Procs :
                (call'[p] # call[p] /\ call'[p].evalErr # ErrUnknownCommand) =>
                    supportsEval' = supportsEval]_vars

\* C14's case: after the flag was cleared, a CompareAndSwap has swapped and
\* returned, and the flag is still cleared
C14_Witness ==
    /\ ~supportsEval
    /\ \E p \in Procs :
          LET c == call[p] IN
          c.op = "cas" /\ c.pc = "done" /\ c.late /\ c.ok

\* C15: against a backend without EVAL, every CompareAndSwap of the callers
\* sharing the handle that has returned either did not try EVAL or met the
\* unknown-command error itself, ran the optimistic-lock path once and
\* returned its result, never the unknown-command error; and the flag is cleared.
C15_SharedHandle ==
    \A p \in Procs :
        LET c == call[p] IN
        (~backendEval /\ c.op = "cas" /\ c.pc = "done") =>
            /\ c.evalErr \in {NotRun, ErrUnknownCommand}
            /\ c.watchRuns = 1
            /\ c.err # ErrUnknownCommand
            /\ c.err = c.werr
            /\ c.ok = (c.wok /\ c.werr = Nil)
            /\ ~supportsEval

\* C15's case: two calls both read the flag while it was set, both met the
\* unknown-command error, and both have returned
C15_Witness ==
    \E p, q \in Procs :
        /\ p # q
        /\ ~backendEval
        /\ call[p].op = "cas" /\ call[p].pc = "done"
        /\ call[q].op = "cas" /\ call[q].pc = "done"
        /\ call[p].evalErr = ErrUnknownCommand
        /\ call[q].evalErr = ErrUnknownCommand

\* C16: a handler holds no session before getConn, one unreleased session
\* from getConn to its return, and when it has returned, however it did, it
\* has acquired one session and released it once.
C16_ReleasedOnce ==
    \A p \in Procs :
        LET c == call[p] IN
        /\ c.pc \in {"idle", "conn"} => c.acq = 0 /\ c.rel = 0
        /\ c.pc \notin {"idle", "conn", "done"} => c.acq = 1 /\ c.rel = 0
        /\ c.pc = "done" => c.acq = 1 /\ c.rel = 1

\* C16's case: a CompareAndSwap has run both paths on its session, its commit
\* failed, and it has returned
C16_Witness ==
    \E p \in Procs :
        LET c == call[p] IN
        /\ c.op = "cas" /\ c.pc = "done" /\ c.evalErr = ErrUnknownCommand
        /\ c.execs = 1 /\ c.err = ErrIO /\ c.rel = 1

\* the positions of a handler at which its next step is a backend command
\* other than SELECT
AtCommand(p) ==
    call[p].pc \in {"eval", "watch", "get", "exec", "setnx", "expire", "time", "value"}

\* C18: every command of a handler is issued on a session selected on the
\* database the handle is configured with, and a handler whose SELECT failed
\* has issued no other command and returns an error.
C18_OwnPartition ==
    \A p \in Procs :
        LET c == call[p] IN
        /\ AtCommand(p) => c.sel = db
        /\ (c.pc = "done" /\ c.err = ErrSelect) =>
              /\ ~c.ok
              /\ c.evalErr = NotRun /\ c.watchRuns = 0 /\ c.at = ZeroTime

\* C17: SETNX leaves an entry it finds untouched and creates a missing one
\* without expiration; with ttl of at least one second the handler then sends
\* EXPIRE, which sets the expiration of the entry, created or found, to ttl
\* truncated to whole seconds from now and leaves its value; with a smaller
\* ttl the handler returns after SETNX, so an expiration found stays.
C17_ExpireRule ==
    [][\A p \in Procs :
         LET c == call[p]
             d == call'[p]
             e == Entry(c.key)
             after == store'[db][c.key] IN
         (c.op = "setnx" /\ d # c /\ clock' = clock /\ ~d.fault) =>
             /\ c.pc = "setnx" =>
                   /\ e.present => after = e /\ ~d.ok
                   /\ ~e.present =>
                         /\ after = [present |-> TRUE, val |-> c.new, exp |-> NoExp]
                         /\ d.ok
                   /\ d.pc = IF c.ttl >= Second THEN "expire" ELSE "done"
             /\ c.pc = "expire" =>
                   /\ c.ttl >= Second
                   /\ e.present =>
                         after = [e EXCEPT !.exp = clock + (c.ttl \div Second) * Second]
                   /\ ~e.present => ~after.present
                   /\ d.pc = "done" /\ d.ok = c.ok /\ d.err = Nil]_vars

\* C17's case: a call with ttl 1.5 s found the key present with another value
\* and has returned; the key keeps its value and expires one second from now
C17_Witness ==
    \E p \in Procs :
        LET c == call[p]
            e == Entry(c.key) IN
        /\ c.op = "setnx" /\ c.pc = "done" /\ ~c.ok /\ c.err = Nil
        /\ c.ttl >= Second
        /\ e.present /\ e.val # c.new /\ e.exp = clock + Second

====
